---- MODULE Spec2Model ----
(***************************************************************************)
(* Model of mirage/dark/dark_prep.py (class DarkPrep): the validation of   *)
(* the request by readpattern_check and check_params, and the reshaping of *)
(* a dark current ramp by data_volume_check, darkints / integration_copy,  *)
(* reorder_dark, linearize_dark and crop_dark, in the order in which       *)
(* prepare calls them.                                                     *)
(*                                                                         *)
(* A numpy array of shape (nint, nframe, ny, nx) is a sequence of          *)
(* integrations, each a sequence of frames, each a sequence of rows, each  *)
(* a sequence of samples.  A sample is a rational <<num, den>> in lowest   *)
(* terms, so that np.mean is exact.  A field that is None in the program   *)
(* is the empty sequence here.                                             *)
(***************************************************************************)
EXTENDS Integers, Sequences, FiniteSets, TLC

(* ------------------------------ bounds ------------------------------ *)
MaxInts == 2      \* integrations in the input dark
MaxFrames == 3    \* frames per integration in the input dark
MaxNframe == 2    \* nframe of a table row
MaxNskip == 1     \* nskip of a table row
MaxNgroup == 2    \* requested ngroup
MaxNint == 5      \* requested nint
NX == 4           \* columns of an image of the input dark

\* yd, the number of rows of an image of the input dark
NY == 1

(* ----------------------------- samples ------------------------------ *)
Abs(a) == IF a < 0 THEN -a ELSE a

RECURSIVE GCD(_, _)
GCD(a, b) == IF b = 0 THEN a ELSE GCD(b, a % b)

Rat(n, d) ==
    LET g == GCD(Abs(n), d)
    IN  IF d = 1 THEN <<n, 1>>
        ELSE IF n = 0 THEN <<0, 1>>
        ELSE <<n \div g, d \div g>>

RAdd(a, b) == Rat(a[1] * b[2] + b[1] * a[2], a[2] * b[2])
RSub(a, b) == Rat(a[1] * b[2] - b[1] * a[2], a[2] * b[2])
RDiv(a, k) == Rat(a[1], a[2] * k)

(* ------------------------- images (ny, nx) -------------------------- *)
ImAdd(a, b) == [y \in 1..Len(a) |-> [x \in 1..Len(a[y]) |-> RAdd(a[y][x], b[y][x])]]
ImSub(a, b) == [y \in 1..Len(a) |-> [x \in 1..Len(a[y]) |-> RSub(a[y][x], b[y][x])]]
ImDiv(a, k) == [y \in 1..Len(a) |-> [x \in 1..Len(a[y]) |-> RDiv(a[y][x], k)]]

RECURSIVE ImSum(_)
ImSum(ims) ==
    IF Len(ims) = 1 THEN ims[1] ELSE ImAdd(ims[1], ImSum(Tail(ims)))

\* np.mean(stack, axis=0) of a non-empty stack of images
ImMean(ims) == ImDiv(ImSum(ims), Len(ims))

(* --------------------------- numpy shapes --------------------------- *)
NInts(A) == Len(A)
NFrms(A) == Len(A[1])

\* A[:, -1, :, :] and A[:, 0, :, :]: one image per integration
LastFrame(A) == [n \in 1..Len(A) |-> A[n][Len(A[n])]]
FirstFrame(A) == [n \in 1..Len(A) |-> A[n][1]]

\* A[:, lo:hi, :, :] with numpy's clipping of the slice (0-based, hi exclusive)
Min(a, b) == IF a < b THEN a ELSE b
FrameSlice(A, lo, hi) == [n \in 1..Len(A) |-> SubSeq(A[n], lo + 1, Min(hi, Len(A[n])))]

\* A[lo:hi] along axis 0
IntSlice(A, lo, hi) == SubSeq(A, lo + 1, Min(hi, Len(A)))

\* numpy broadcasting of A with shape (I, F, y, x) against B with shape
\* (J, y, x): B is aligned to the trailing axes, so its axis 0 meets A's
\* FRAME axis.  The two lengths must be equal or one of them must be 1.
BroadcastOK(A, B) == NFrms(A) = Len(B) \/ NFrms(A) = 1 \/ Len(B) = 1
BroadcastLen(A, B) == IF NFrms(A) = 1 THEN Len(B) ELSE NFrms(A)
BroadcastAdd(A, B) ==
    [n \in 1..Len(A) |->
        [f \in 1..BroadcastLen(A, B) |->
            ImAdd(A[n][IF NFrms(A) = 1 THEN 1 ELSE f], B[IF Len(B) = 1 THEN 1 ELSE f])]]
BroadcastSub(A, B) ==
    [n \in 1..Len(A) |->
        [f \in 1..BroadcastLen(A, B) |->
            ImSub(A[n][IF NFrms(A) = 1 THEN 1 ELSE f], B[IF Len(B) = 1 THEN 1 ELSE f])]]

\* np.hstack on 4-D arrays joins along axis 1, np.vstack along axis 0
HStack(A, B) == [n \in 1..Len(A) |-> A[n] \o B[n]]
VStack(A, B) == A \o B

(* ------------------------ readout patterns -------------------------- *)
\* str.upper() on the pattern names that occur
Upper(s) ==
    CASE s = "bright1" -> "BRIGHT1"
      [] OTHER -> s

\* self.readpatterns['name'] after readpattern_check has upper-cased it
TableNames == {"RAPID", "NISRAPID", "BRIGHT1"}

rapids == {"RAPID", "NISRAPID", "FGSRAPID"}

\* READPATT values an input file's header may carry
HeaderNames == {"RAPID", "BRIGHT1", "bright1"}

\* str.lower() on the instrument names that occur
Lower(s) ==
    CASE s = "NIRCam" -> "nircam"
      [] OTHER -> s

INST_LIST == {"nircam", "niriss", "fgs"}

\* self.params['Inst']['instrument'] values the parameter file may hold
Instruments == {"NIRCam", "WFC3"}

\* self.params['Readout']['readpatt'] once line 120 has stored the integer
\* maxgroups in it: the value k is written as its decimal numeral, which is
\* no pattern name; an int has no method upper()
IntValue(k) == ToString(k)
IsInt(v) == v \in {IntValue(k) : k \in 0..MaxNgroup}

(* ------------------------------ errors ------------------------------ *)
NoError == "none"
BroadcastError == "ValueError: operands could not be broadcast together"
IndexOutOfBounds == "IndexError: index out of bounds"
UnknownPattern == "IndexError: pattern not in readpatterns"
CannotConvert == "ValueError: cannot convert between readout patterns"

Ok(o) == [obj |-> o, err |-> NoError]
Fail(o, e) == [obj |-> o, err |-> e]

(* ------------------------- data_volume_check ------------------------ *)
\* One pass of the loop "for ints in range(div - 1)"
CopyAll(obj) ==
    IF ~BroadcastOK(obj.data, LastFrame(obj.data)) THEN Fail(obj, BroadcastError)
    ELSE LET o1 == [obj EXCEPT !.data =
                       HStack(obj.data, BroadcastAdd(obj.data, LastFrame(obj.data)))]
             sb == obj.sbAndRefpix
         IN  IF sb = <<>> THEN Ok(o1)
             ELSE IF ~BroadcastOK(sb, LastFrame(sb)) THEN Fail(o1, BroadcastError)
             ELSE Ok([o1 EXCEPT !.sbAndRefpix =
                         HStack(sb, BroadcastAdd(sb, LastFrame(sb)))])

RECURSIVE CopyLoop(_, _)
CopyLoop(obj, times) ==
    IF times <= 0 THEN Ok(obj)
    ELSE LET r == CopyAll(obj)
         IN  IF r.err # NoError THEN r ELSE CopyLoop(r.obj, times - 1)

\* np.copy(A[:, 1:mod + 1, :, :]) - A[:, 0, :, :], then + A[:, -1, :, :], then hstack
PartialOK(A, mod) ==
    /\ BroadcastOK(FrameSlice(A, 1, mod + 1), FirstFrame(A))
    /\ BroadcastOK(BroadcastSub(FrameSlice(A, 1, mod + 1), FirstFrame(A)), LastFrame(A))
PartialArr(A, mod) ==
    HStack(A, BroadcastAdd(BroadcastSub(FrameSlice(A, 1, mod + 1), FirstFrame(A)),
                           LastFrame(A)))

\* CopyPart that appends no frame
CopyPartNone(obj, mod) == Ok(obj)

CopyPart(obj, mod) ==
    IF ~PartialOK(obj.data, mod) THEN Fail(obj, BroadcastError)
    ELSE LET o1 == [obj EXCEPT !.data = PartialArr(obj.data, mod)]
             sb == obj.sbAndRefpix
         IN  IF sb = <<>> THEN Ok(o1)
             ELSE IF ~PartialOK(sb, mod) THEN Fail(o1, BroadcastError)
             ELSE Ok([o1 EXCEPT !.sbAndRefpix = PartialArr(sb, mod)])

\* TruncateFrames keeping the last frames instead of the first
TruncateFramesTail(obj, req) ==
    [obj EXCEPT
        !.data = FrameSlice(obj.data, NFrms(obj.data) - req, NFrms(obj.data)),
        !.sbAndRefpix = IF obj.sbAndRefpix = <<>> THEN <<>>
                        ELSE FrameSlice(obj.sbAndRefpix, NFrms(obj.data) - req, NFrms(obj.data))]

\* Lines 358-360
TruncateFrames(obj, req) ==
    [obj EXCEPT
        !.data = FrameSlice(obj.data, 0, req),
        !.sbAndRefpix = IF obj.sbAndRefpix = <<>> THEN <<>>
                        ELSE FrameSlice(obj.sbAndRefpix, 0, req)]

SetNGROUPS(r, v) ==
    IF r.err # NoError THEN r ELSE Ok([r.obj EXCEPT !.header.NGROUPS = v])

DataVolumeCheck(obj, p) ==
    LET inputframes == NFrms(obj.data)
        req == p.ngroup * (p.nskip + p.nframe)
        div == req \div inputframes
        mod == req % inputframes
        full == CopyLoop(obj, div - 1)
    IN  IF req > inputframes
        THEN SetNGROUPS(IF full.err # NoError THEN full ELSE CopyPart(full.obj, mod), req)
        ELSE IF req < inputframes
        THEN SetNGROUPS(Ok(TruncateFrames(obj, req)), req)
        ELSE SetNGROUPS(Ok(obj), req)

(* -------------------- darkints / integration_copy ------------------- *)
\* "for i in range(ncopies)": stack the same copy under the array
RECURSIVE StackCopies(_, _, _)
StackCopies(A, copy, ncopies) ==
    IF ncopies <= 0 THEN A ELSE StackCopies(VStack(A, copy), copy, ncopies - 1)

\* CopyInts with the partial copy taken one integration too far on
CopyIntsShifted(A, req, darkint) ==
    LET ncopies == (req - darkint) \div darkint
        extras == (req - darkint) % darkint
        full == IF ncopies > 0 THEN StackCopies(A, A, ncopies) ELSE A
    IN  IF extras > 0 THEN VStack(full, IntSlice(full, 1, extras + 1)) ELSE full

\* What integration_copy does to one of data, sbAndRefpix, zeroframe
CopyInts(A, req, darkint) ==
    LET ncopies == (req - darkint) \div darkint
        extras == (req - darkint) % darkint
        full == IF ncopies > 0 THEN StackCopies(A, A, ncopies) ELSE A
    IN  IF extras > 0 THEN VStack(full, IntSlice(full, 0, extras)) ELSE full

IfPresent(A, new) == IF A = <<>> THEN <<>> ELSE new

integration_copy(obj, req, darkint) ==
    [obj EXCEPT
        !.data = CopyInts(obj.data, req, darkint),
        !.sbAndRefpix = IfPresent(obj.sbAndRefpix, CopyInts(obj.sbAndRefpix, req, darkint)),
        !.zeroframe = IfPresent(obj.zeroframe, CopyInts(obj.zeroframe, req, darkint)),
        !.header.NINTS = req]

\* TruncateInts that leaves zeroframe at its full number of integrations
TruncateIntsKeepZero(obj, reqints) ==
    [obj EXCEPT
        !.data = IntSlice(obj.data, 0, reqints),
        !.sbAndRefpix = IfPresent(obj.sbAndRefpix, IntSlice(obj.sbAndRefpix, 0, reqints))]

\* Lines 287-291
TruncateInts(obj, reqints) ==
    [obj EXCEPT
        !.data = IntSlice(obj.data, 0, reqints),
        !.sbAndRefpix = IfPresent(obj.sbAndRefpix, IntSlice(obj.sbAndRefpix, 0, reqints)),
        !.zeroframe = IfPresent(obj.zeroframe, IntSlice(obj.zeroframe, 0, reqints))]

DarkInts(obj, p) ==
    LET ndarkints == NInts(obj.data)
        reqints == p.nint
    IN  IF reqints <= ndarkints
        THEN TruncateInts(obj, reqints)
        ELSE integration_copy(obj, reqints, ndarkints)

(* ---------------------------- reorder_dark -------------------------- *)
\* np.zeros of the shape of one image
ZeroImage(im) == [y \in 1..Len(im) |-> [x \in 1..Len(im[y]) |-> <<0, 1>>]]

\* GroupFrames moved on by nframe only, so that skipped frames are read
GroupFramesNoSkip(i, p) == [k \in 1..p.nframe |-> i * p.nframe + (k - 1)]

\* The array "frames" in the pass for group i (0-based): arange(0, nframe)
\* moved on by framesPerGroup after every group
GroupFrames(i, p) == [k \in 1..p.nframe |-> i * (p.nframe + p.nskip) + (k - 1)]

\* accumimage of group i of integration integ (both 0-based); A[integ, frames]
AverageGroup(A, integ, i, p) ==
    IF p.nframe > 1
    THEN ImMean([k \in 1..p.nframe |-> A[integ + 1][GroupFrames(i, p)[k] + 1]])
    ELSE A[integ + 1][GroupFrames(i, p)[1] + 1]

\* Every index the averaging loops read exists in A
AverageInRange(A, p) ==
    /\ p.nint <= NInts(A)
    /\ \A i \in 0..(p.ngroup - 1) : \A k \in 1..p.nframe : GroupFrames(i, p)[k] < NFrms(A)

\* AverageAll with every accumimage added to outdark twice
AverageAllTwice(A, p) ==
    [n \in 1..p.nint |->
        [g \in 1..p.ngroup |-> ImAdd(AverageGroup(A, n - 1, g - 1, p),
                                     AverageGroup(A, n - 1, g - 1, p))]]

\* outdark after the loops: np.zeros + accumimage for every (integ, i)
AverageAll(A, p) ==
    [n \in 1..p.nint |->
        [g \in 1..p.ngroup |-> ImAdd(ZeroImage(A[1][1]), AverageGroup(A, n - 1, g - 1, p))]]

\* ZeroCaptured without the test of the input pattern
ZeroCapturedAnyPattern(obj) ==
    IF obj.zeroframe = <<>>
    THEN [obj EXCEPT !.zeroframe = FirstFrame(obj.data)]
    ELSE obj

\* ZeroCaptured taking the last frame of each integration
ZeroCapturedLastFrame(obj) ==
    IF obj.header.READPATT \in rapids /\ obj.zeroframe = <<>>
    THEN [obj EXCEPT !.zeroframe = LastFrame(obj.data)]
    ELSE obj

\* ZeroCaptured that takes frame 0 even when a zero frame is present
ZeroCapturedOverwrite(obj) ==
    IF obj.header.READPATT \in rapids
    THEN [obj EXCEPT !.zeroframe = FirstFrame(obj.data)]
    ELSE obj

\* Lines 936-955: the zero frame and its sbAndRefpix
ZeroCaptured(obj) ==
    IF obj.header.READPATT \in rapids /\ obj.zeroframe = <<>>
    THEN [obj EXCEPT !.zeroframe = FirstFrame(obj.data)]
    ELSE obj
SbZero(obj) ==
    IF obj.header.READPATT \in rapids /\ obj.sbAndRefpix # <<>>
    THEN FirstFrame(obj.sbAndRefpix)
    ELSE <<>>

\* Reorganized that leaves NGROUPS and NINTS of the header as they were
ReorganizedKeepCounts(obj, outdark, outsb, p) ==
    [obj EXCEPT
        !.data = outdark,
        !.sbAndRefpix = IfPresent(obj.sbAndRefpix, outsb),
        !.header.READPATT = p.readpatt,
        !.header.NFRAMES = p.nframe,
        !.header.NSKIP = p.nskip]

\* Lines 1014-1023
Reorganized(obj, outdark, outsb, p) ==
    [obj EXCEPT
        !.data = outdark,
        !.sbAndRefpix = IfPresent(obj.sbAndRefpix, outsb),
        !.header.READPATT = p.readpatt,
        !.header.NFRAMES = p.nframe,
        !.header.NSKIP = p.nskip,
        !.header.NGROUPS = p.ngroup,
        !.header.NINTS = p.nint]

\* The readout pattern case reorder_dark takes
IsCaseA(darkpatt, p) == darkpatt \in rapids /\ p.readpatt \notin rapids
IsCaseB(darkpatt, p) == p.readpatt = darkpatt

ReorderDark(obj, p) ==
    LET darkpatt == obj.header.READPATT
        z == ZeroCaptured(obj)
        sbzero == SbZero(obj)
        sb == obj.sbAndRefpix
    IN  IF darkpatt \notin TableNames
        THEN [obj |-> obj, err |-> UnknownPattern, sbzero |-> <<>>]
        ELSE IF IsCaseA(darkpatt, p)
        THEN IF ~AverageInRange(obj.data, p)
             THEN [obj |-> z, err |-> IndexOutOfBounds, sbzero |-> <<>>]
             ELSE [obj |-> Reorganized(z, AverageAll(obj.data, p),
                                       IfPresent(sb, AverageAll(sb, p)), p),
                   err |-> NoError, sbzero |-> sbzero]
        ELSE IF IsCaseB(darkpatt, p)
        THEN [obj |-> Reorganized(z, FrameSlice(obj.data, 0, p.ngroup),
                                  IfPresent(sb, FrameSlice(sb, 0, p.ngroup)), p),
              err |-> NoError, sbzero |-> sbzero]
        ELSE [obj |-> z, err |-> CannotConvert, sbzero |-> <<>>]

(* ----------------------------- crop_dark ---------------------------- *)
AmplifierMode == "ValueError: amplifier mode is not allowed"
AmplifierWidth == "ValueError: fast axis is not a multiple of 4"

\* im[b[1]:b[3] + 1, b[0]:b[2] + 1] with b = (x_min, y_min, x_max, y_max)
CropImage(im, b) ==
    [y \in 1..(Min(b[4] + 1, Len(im)) - b[2]) |->
        SubSeq(im[y + b[2]], b[1] + 1, Min(b[3] + 1, Len(im[y + b[2]])))]

Crop3(A, b) == [n \in 1..Len(A) |-> CropImage(A[n], b)]
Crop4(A, b) == [n \in 1..Len(A) |-> [f \in 1..Len(A[n]) |-> CropImage(A[n][f], b)]]

\* The test of lines 195-196 on the image size (yd, xd) of model.data
IsFullFrame(im, b) ==
    b[1] = 0 /\ b[3] = Len(im[1]) - 1 /\ b[2] = 0 /\ b[4] = Len(im) - 1

\* AmpError without the test of the fast axis width
AmpErrorModeOnly(p, b) ==
    IF p.namp # 4 /\ p.namp # 1 THEN AmplifierMode ELSE NoError

\* Lines 246-260
AmpError(p, b) ==
    LET nfast == b[3] - b[1] + 1
    IN  IF p.namp # 4 /\ p.namp # 1 THEN AmplifierMode
        ELSE IF p.namp = 4 /\ (nfast \div 4) * 4 # nfast THEN AmplifierWidth
        ELSE NoError

\* CropDark4 that leaves sbAndRefpix at its full size
CropDark4DataOnly(obj, p, b) ==
    LET o1 == IF IsFullFrame(obj.data[1][1], b) THEN obj
              ELSE [obj EXCEPT
                       !.data = Crop4(obj.data, b),
                       !.zeroframe = IfPresent(obj.zeroframe, Crop3(obj.zeroframe, b))]
    IN  [obj |-> o1, err |-> AmpError(p, b)]

\* CropDark4 without the test of lines 195-196 and with the fast axis
\* sliced one column short
CropDark4Short(obj, p, b) ==
    [obj |-> [obj EXCEPT !.data = Crop4(obj.data, <<b[1], b[2], b[3] - 1, b[4]>>)],
     err |-> AmpError(p, b)]

\* crop_dark on a model whose data has 4 axes
CropDark4(obj, p, b) ==
    LET o1 == IF IsFullFrame(obj.data[1][1], b) THEN obj
              ELSE [obj EXCEPT
                       !.data = Crop4(obj.data, b),
                       !.sbAndRefpix = IfPresent(obj.sbAndRefpix, Crop4(obj.sbAndRefpix, b)),
                       !.zeroframe = IfPresent(obj.zeroframe, Crop3(obj.zeroframe, b))]
    IN  [obj |-> o1, err |-> AmpError(p, b)]

\* crop_dark on a model whose data has 3 axes (the zero frame model)
CropDark3(zm, p, b) ==
    LET z1 == IF IsFullFrame(zm.data[1], b) THEN zm
              ELSE [zm EXCEPT
                       !.data = Crop3(zm.data, b),
                       !.sbAndRefpix = IfPresent(zm.sbAndRefpix, Crop3(zm.sbAndRefpix, b))]
    IN  [obj |-> z1, err |-> AmpError(p, b)]

\* crop_dark on a model whose data has 2 axes (lines 228-241)
CropDark2(m, p, b) ==
    LET m1 == IF IsFullFrame(m.data, b) THEN m
              ELSE [m EXCEPT
                       !.data = CropImage(m.data, b),
                       !.sbAndRefpix = IfPresent(m.sbAndRefpix, CropImage(m.sbAndRefpix, b)),
                       !.zeroframe = IfPresent(m.zeroframe, CropImage(m.zeroframe, b))]
    IN  [obj |-> m1, err |-> AmpError(p, b)]

(* --------------------------- linearize_dark ------------------------- *)
\* The calibration steps are external: each returns an array of the shape
\* it was given.  DQInitStep and SaturationStep only set flags; the bias
\* and the linearity correction depend on the reference file in use.
DQInitStep(v) == v
SaturationStep(v) == v
SuperBiasStep(v, override) == RSub(v, IF override THEN <<3, 1>> ELSE <<2, 1>>)
RefPixStep(v) == RSub(v, RDiv(v, 8))
LinearityStep(v, override) == RAdd(v, RDiv(v, IF override THEN 2 ELSE 4))

\* PipelineCalls with the reference pixel correction before the bias
PipelineCallsRefPixFirst(rs) ==
    << [step |-> "dq_init", override |-> "badpixmask" \in rs],
       [step |-> "saturation", override |-> "saturation" \in rs],
       [step |-> "refpix", override |-> FALSE],
       [step |-> "superbias", override |-> "superbias" \in rs],
       [step |-> "linearity", override |-> "linearity" \in rs] >>

\* The calls of lines 583-632 in the order linearize_dark makes them; rs is
\* the set of reference files of self.runStep that are supplied
PipelineCalls(rs) ==
    << [step |-> "dq_init", override |-> "badpixmask" \in rs],
       [step |-> "saturation", override |-> "saturation" \in rs],
       [step |-> "superbias", override |-> "superbias" \in rs],
       [step |-> "refpix", override |-> FALSE],
       [step |-> "linearity", override |-> "linearity" \in rs] >>

StepCall(c, v) ==
    CASE c.step = "dq_init" -> DQInitStep(v)
      [] c.step = "saturation" -> SaturationStep(v)
      [] c.step = "superbias" -> SuperBiasStep(v, c.override)
      [] c.step = "refpix" -> RefPixStep(v)
      [] c.step = "linearity" -> LinearityStep(v, c.override)

\* The sample after the calls lo .. hi
RECURSIVE RunCalls(_, _, _, _)
RunCalls(calls, lo, hi, v) ==
    IF hi < lo THEN v ELSE StepCall(calls[hi], RunCalls(calls, lo, hi - 1, v))

\* linDark after RefPixStep (line 609)
AfterRefPix(A, rs) ==
    [n \in 1..Len(A) |-> [f \in 1..Len(A[n]) |->
        [y \in 1..Len(A[n][f]) |-> [x \in 1..Len(A[n][f][y]) |->
            RunCalls(PipelineCalls(rs), 1, 4, A[n][f][y][x])]]]]

\* linDark after LinearityStep (lines 624-632)
AfterLinearity(A, rs) ==
    [n \in 1..Len(A) |-> [f \in 1..Len(A[n]) |->
        [y \in 1..Len(A[n][f]) |-> [x \in 1..Len(A[n][f][y]) |->
            RunCalls(PipelineCalls(rs), 5, 5, A[n][f][y][x])]]]]

\* dark.data - linDark.data (line 616)
Sub4(A, B) ==
    [n \in 1..Len(A) |-> [f \in 1..Len(A[n]) |-> ImSub(A[n][f], B[n][f])]]

LinearizeDark(obj, rs) ==
    [data |-> AfterLinearity(AfterRefPix(obj.data, rs), rs),
     sbAndRefpix |-> Sub4(obj.data, AfterRefPix(obj.data, rs)),
     zeroframe |-> obj.zeroframe,
     header |-> obj.header]

\* np.expand_dims(A, axis=1) and A[:, 0, :, :]
ExpandDims(A) == [n \in 1..Len(A) |-> <<A[n]>>]

(* ------------------------------- state ------------------------------ *)
VARIABLES
    pc,               \* the place prepare has reached
    err,              \* the exception that ended prepare, or NoError
    params,           \* self.params['Readout'], ['Inst'], ['Reffiles'] entries in use
    subarray_bounds,  \* self.subarray_bounds = (x_min, y_min, x_max, y_max)
    dark,             \* self.dark
    linDark,          \* self.linDark
    zeroModel,        \* self.zeroModel
    sbzeroframe,      \* the second value returned by reorder_dark
    prepDark,         \* self.prepDark
    entry,            \* self.dark as it was when the last stage was entered
    last,             \* the stage that ran last
    written,          \* the output file of line 800 exists
    calls             \* the pipeline steps called so far, in order

vars == <<pc, err, params, subarray_bounds, dark, linDark, zeroModel,
          sbzeroframe, prepDark, entry, last, written, calls>>

NoHeader == [READPATT |-> "", NFRAMES |-> 0, NSKIP |-> 0, NGROUPS |-> 0, NINTS |-> 0]
NoCube == [data |-> <<>>, sbAndRefpix |-> <<>>, zeroframe |-> <<>>, header |-> NoHeader]
NoPrep == [data |-> <<>>, zeroframe |-> <<>>, sbAndRefpix |-> <<>>,
           zero_sbAndRefpix |-> <<>>, header |-> NoHeader]
NoModel == [set |-> FALSE, data |-> <<>>, sbAndRefpix |-> <<>>]

(* --------------------------- input files ---------------------------- *)
MaxDiv == 3       \* most copies of the input one exposure may need

Idx(n, f, y, x) == x + NX * ((y - 1) + NY * ((f - 1) + MaxFrames * (n - 1)))
DataSample(n, f, y, x) == <<Idx(n, f, y, x) * Idx(n, f, y, x) + 1, 1>>
SbSample(n, f, y, x) == <<Idx(n, f, y, x) * (Idx(n, f, y, x) + 3), 1>>
ZeroSample(n, y, x) == <<7 * Idx(n, 1, y, x) + 5, 1>>

\* The dark current file: ni integrations of nf frames
DarkFile(ni, nf, patt, hasSb, hasZero) ==
    [data |-> [n \in 1..ni |-> [f \in 1..nf |->
                  [y \in 1..NY |-> [x \in 1..NX |-> DataSample(n, f, y, x)]]]],
     sbAndRefpix |-> IF ~hasSb THEN <<>>
                     ELSE [n \in 1..ni |-> [f \in 1..nf |->
                              [y \in 1..NY |-> [x \in 1..NX |-> SbSample(n, f, y, x)]]]],
     zeroframe |-> IF ~hasZero THEN <<>>
                   ELSE [n \in 1..ni |-> [y \in 1..NY |-> [x \in 1..NX |-> ZeroSample(n, y, x)]]],
     header |-> [READPATT |-> patt, NFRAMES |-> 1, NSKIP |-> 0,
                 NGROUPS |-> nf, NINTS |-> ni]]

\* Readout pattern names the parameter file may ask for
RequestedNames == TableNames \cup {"DEEP8"}

\* Rows (nframe, nskip) the readout pattern table may hold for a name;
\* for a name the table lacks, the values of the parameter file
TableRows(name) ==
    IF name \in rapids \/ name \notin TableNames THEN {<<1, 0>>}
    ELSE (1..MaxNframe) \X (0..MaxNskip)

\* Subarrays the bounds resolver may return
FullFrame == <<0, 0, NX - 1, NY - 1>>
Subarrays == {FullFrame, <<1, 0, NX - 1, NY - 1>>}
AmpModes == {1, 2, 4}

\* Reference files of self.params['Reffiles'] that may be supplied or left
\* to the calibration system (lines 127-131)
ReferenceFiles == {"badpixmask", "saturation", "superbias", "linearity"}

\* Requests beyond the plainest one (a limit of groups below ngroup, the
\* pipeline switch against the kind of input, supplied reference files, an
\* instrument outside INST_LIST, missing configuration files) are tried on
\* small exposures only
OverLimit(ngroup, nint, namp) ==
    IF nint = 1 /\ namp = 1 /\ ngroup > 1 THEN {ngroup - 1} ELSE {}
SmallOnly(S, ngroup, nint, namp) ==
    IF ngroup = 1 /\ nint = 1 /\ namp = 1 THEN S ELSE {}

Init ==
    /\ pc = "start"
    /\ err = NoError
    /\ written = FALSE
    /\ calls = <<>>
    /\ \E name \in RequestedNames, ngroup \in 1..MaxNgroup, nint \in 1..MaxNint,
          namp \in AmpModes, lin \in BOOLEAN :
          \E row \in TableRows(name),
             maxgroups \in {MaxNgroup} \cup OverLimit(ngroup, nint, namp),
             pipeline \in {~lin} \cup SmallOnly(BOOLEAN, ngroup, nint, namp),
             rs \in {{}} \cup SmallOnly(IF lin THEN {} ELSE SUBSET ReferenceFiles,
                                       ngroup, nint, namp) :
             \E inst \in {"NIRCam"} \cup SmallOnly(IF rs = {} THEN Instruments ELSE {},
                                                  ngroup, nint, namp),
                cfg \in {TRUE} \cup SmallOnly(IF rs = {} THEN BOOLEAN ELSE {},
                                              ngroup, nint, namp) :
                params = [readpatt |-> name, nframe |-> row[1], nskip |-> row[2],
                          ngroup |-> ngroup, nint |-> nint, namp |-> namp,
                          use_JWST_pipeline |-> pipeline, linearized_darkfile |-> lin,
                          runStep |-> rs, maxgroups |-> maxgroups,
                          instrument |-> inst, configfiles |-> cfg]
    /\ subarray_bounds \in
          IF params.ngroup = 1 /\ params.nint = 1 THEN Subarrays
          ELSE IF params.namp = 1 THEN {FullFrame} ELSE {}
    /\ \E ni \in 1..MaxInts, nf \in 1..MaxFrames, patt \in HeaderNames, hasZero \in BOOLEAN :
          /\ (params.ngroup * (params.nframe + params.nskip)) \div nf <= MaxDiv
          /\ params.runStep # {} => (ni = 1 /\ nf = 1)
          /\ dark = DarkFile(ni, nf, patt, params.linearized_darkfile, hasZero)
    /\ linDark = NoCube
    /\ zeroModel = NoModel
    /\ sbzeroframe = <<>>
    /\ prepDark = NoPrep
    /\ entry = NoCube
    /\ last = "init"

(* ------------------------------ prepare ----------------------------- *)
\* In the run on a linearized dark self.dark and self.linDark are one object
Alias(d) == IF params.linearized_darkfile THEN d ELSE linDark

Raise(e) == pc' = "failed" /\ err' = e

UndefinedPattern == "ValueError: readout pattern is not defined"

\* Line 661: the requested name in upper case must be a name of the table
readpattern_check ==
    /\ pc = "start"
    /\ IF Upper(params.readpatt) \in TableNames
       THEN /\ pc' = "read" /\ err' = err
            /\ params' = [params EXCEPT !.readpatt = Upper(params.readpatt)]
       ELSE Raise(UndefinedPattern) /\ params' = params
    /\ entry' = dark
    /\ last' = "readpattern_check"
    /\ UNCHANGED <<subarray_bounds, dark, linDark, zeroModel, sbzeroframe, prepDark, written, calls>>

InstrumentNotImplemented == "ValueError: instrument not implemented"
RawWithoutPipeline == "ValueError: without the pipeline, a raw dark cannot be used"
ConfigFileMissing == "FileNotFoundError: pipeline step configuration file not provided"
IntHasNoUpper == "AttributeError: 'int' object has no attribute 'upper'"

\* Lines 109-120: the parameters after the test of ngroup against maxgroups
GroupLimit(p) ==
    IF p.ngroup > p.maxgroups
    THEN [p EXCEPT !.readpatt = IntValue(p.maxgroups)]
    ELSE p

\* check_params without the test of lines 74-78
check_paramsAnyMode ==
    /\ pc = "read"
    /\ IF Lower(params.instrument) \notin INST_LIST
       THEN Raise(InstrumentNotImplemented) /\ params' = params
       ELSE /\ params' = GroupLimit(params)
            /\ IF ~params.linearized_darkfile /\ ~params.configfiles
               THEN Raise(ConfigFileMissing)
               ELSE pc' = "checked" /\ err' = err
    /\ entry' = dark
    /\ last' = "check_params"
    /\ UNCHANGED <<subarray_bounds, dark, linDark, zeroModel, sbzeroframe, prepDark, written, calls>>

\* Line 664
check_params ==
    /\ pc = "read"
    /\ IF Lower(params.instrument) \notin INST_LIST
       THEN Raise(InstrumentNotImplemented) /\ params' = params
       ELSE IF ~params.use_JWST_pipeline /\ ~params.linearized_darkfile
       THEN Raise(RawWithoutPipeline) /\ params' = params
       ELSE /\ params' = GroupLimit(params)
            /\ IF ~params.linearized_darkfile /\ ~params.configfiles
               THEN Raise(ConfigFileMissing)
               ELSE pc' = "checked" /\ err' = err
    /\ entry' = dark
    /\ last' = "check_params"
    /\ UNCHANGED <<subarray_bounds, dark, linDark, zeroModel, sbzeroframe, prepDark, written, calls>>

\* Lines 680-685: get_base_dark (lines 485-496) or read_linear_dark
get_base_dark ==
    /\ pc = "checked"
    /\ ~params.linearized_darkfile
    /\ IF dark.header.READPATT \notin rapids
       THEN IF IsInt(params.readpatt) THEN Raise(IntHasNoUpper)
            ELSE IF Upper(params.readpatt) # dark.header.READPATT
            THEN Raise(CannotConvert)
            ELSE pc' = "loaded" /\ err' = err
       ELSE pc' = "loaded" /\ err' = err
    /\ entry' = dark
    /\ last' = "get_base_dark"
    /\ UNCHANGED <<params, subarray_bounds, dark, linDark, zeroModel, sbzeroframe, prepDark, written, calls>>

read_linear_dark ==
    /\ pc = "checked"
    /\ params.linearized_darkfile
    /\ pc' = "loaded"
    /\ linDark' = dark
    /\ entry' = dark
    /\ last' = "read_linear_dark"
    /\ UNCHANGED <<err, params, subarray_bounds, dark, zeroModel, sbzeroframe, prepDark, written, calls>>

\* Line 690
data_volume_check ==
    /\ pc = "loaded"
    /\ LET r == DataVolumeCheck(dark, params)
       IN  /\ dark' = r.obj
           /\ IF r.err # NoError THEN Raise(r.err)
              ELSE pc' = "volume_checked" /\ err' = err
    /\ linDark' = Alias(dark')
    /\ entry' = dark
    /\ last' = "data_volume_check"
    /\ UNCHANGED <<params, subarray_bounds, zeroModel, sbzeroframe, prepDark, written, calls>>

\* Line 695
darkints ==
    /\ pc = "volume_checked"
    /\ dark' = DarkInts(dark, params)
    /\ linDark' = Alias(dark')
    /\ pc' = "ints_adjusted"
    /\ entry' = dark
    /\ last' = "darkints"
    /\ UNCHANGED <<err, params, subarray_bounds, zeroModel, sbzeroframe, prepDark, written, calls>>

\* Line 700
reorder_dark ==
    /\ pc = "ints_adjusted"
    /\ LET r == ReorderDark(dark, params)
       IN  /\ dark' = r.obj
           /\ sbzeroframe' = r.sbzero
           /\ IF r.err # NoError THEN Raise(r.err)
              ELSE pc' = "reordered" /\ err' = err
    /\ linDark' = Alias(dark')
    /\ entry' = dark
    /\ last' = "reorder_dark"
    /\ UNCHANGED <<params, subarray_bounds, zeroModel, prepDark, written, calls>>

NoneZeroModel == "AttributeError: 'NoneType' object has no attribute 'data'"

\* Lines 734-742: the zero frame as a cube of one group, through the pipeline
LinearZero(zeroframe, header, rs) ==
    LET zl == LinearizeDark([data |-> ExpandDims(zeroframe), sbAndRefpix |-> <<>>,
                             zeroframe |-> <<>>, header |-> header], rs)
    IN  [set |-> TRUE, data |-> FirstFrame(zl.data), sbAndRefpix |-> FirstFrame(zl.sbAndRefpix)]

\* Lines 718-748
linearize_dark ==
    /\ pc = "reordered"
    /\ params.use_JWST_pipeline /\ ~params.linearized_darkfile
    /\ LET lin == LinearizeDark(dark, params.runStep)
       IN  IF IsInt(params.readpatt)
           THEN /\ linDark' = lin
                /\ calls' = calls \o PipelineCalls(params.runStep)
                /\ zeroModel' = zeroModel
           ELSE IF Upper(params.readpatt) \in rapids
           THEN /\ linDark' = lin
                /\ calls' = calls \o PipelineCalls(params.runStep)
                /\ zeroModel' = [set |-> TRUE, data |-> FirstFrame(lin.data),
                                 sbAndRefpix |-> FirstFrame(lin.sbAndRefpix)]
           ELSE IF dark.zeroframe # <<>>
           THEN \* zeroModel.header is linDark.header, the same object
                /\ linDark' = [lin EXCEPT !.header.NGROUPS = 1,
                                          !.zeroframe = [n \in 1..Len(lin.zeroframe) |->
                                                            ZeroImage(lin.zeroframe[n])]]
                /\ zeroModel' = LinearZero(dark.zeroframe, [lin.header EXCEPT !.NGROUPS = 1],
                                            params.runStep)
                /\ calls' = calls \o PipelineCalls(params.runStep)
                                  \o PipelineCalls(params.runStep)
           ELSE /\ linDark' = lin
                /\ zeroModel' = NoModel
                /\ calls' = calls \o PipelineCalls(params.runStep)
    /\ IF IsInt(params.readpatt) THEN Raise(IntHasNoUpper)
       ELSE pc' = "linearized" /\ err' = err
    /\ entry' = dark
    /\ last' = "linearize_dark"
    /\ UNCHANGED <<params, subarray_bounds, dark, sbzeroframe, prepDark, written>>

\* crop_pipeline run on self.dark before the cube has been linearized
crop_pipelineEarly ==
    /\ pc = "reordered"
    /\ params.use_JWST_pipeline /\ ~params.linearized_darkfile
    /\ LET r == CropDark4(dark, params, subarray_bounds)
       IN  /\ dark' = r.obj
           /\ IF r.err # NoError THEN Raise(r.err)
              ELSE pc' = "linearized" /\ err' = err
    /\ entry' = dark
    /\ last' = "crop_dark"
    /\ UNCHANGED <<params, subarray_bounds, linDark, zeroModel, sbzeroframe, prepDark, written, calls>>

\* Lines 752-756: crop_dark on self.dark, self.linDark and self.zeroModel
crop_pipeline ==
    /\ pc = "linearized"
    /\ LET r == CropDark4(dark, params, subarray_bounds)
           l == CropDark4(linDark, params, subarray_bounds)
           z == CropDark3(zeroModel, params, subarray_bounds)
       IN  /\ dark' = r.obj
           /\ IF r.err # NoError
              THEN Raise(r.err) /\ UNCHANGED <<linDark, zeroModel>>
              ELSE /\ pc' = "cropped" /\ err' = err
                   /\ linDark' = l.obj
                   /\ zeroModel' = IF zeroModel.set THEN z.obj ELSE zeroModel
    /\ entry' = dark
    /\ last' = "crop_dark"
    /\ UNCHANGED <<params, subarray_bounds, sbzeroframe, prepDark, written, calls>>

\* Lines 760-771: the run on a linearized dark
crop_linear ==
    /\ pc = "reordered"
    /\ params.linearized_darkfile
    /\ LET zm == [set |-> TRUE, data |-> dark.zeroframe, sbAndRefpix |-> sbzeroframe]
           l == CropDark4(linDark, params, subarray_bounds)
           z == CropDark3(zm, params, subarray_bounds)
       IN  /\ linDark' = l.obj
           /\ dark' = l.obj
           /\ IF l.err # NoError
              THEN Raise(l.err) /\ zeroModel' = zm
              ELSE /\ pc' = "cropped" /\ err' = err
                   /\ zeroModel' = IF zm.data # <<>> THEN z.obj ELSE zm
    /\ entry' = dark
    /\ last' = "crop_dark"
    /\ UNCHANGED <<params, subarray_bounds, sbzeroframe, prepDark, written, calls>>

\* save with the output file written before self.zeroModel is read
saveFileFirst ==
    /\ pc = "cropped"
    /\ written' = TRUE
    /\ IF ~zeroModel.set
       THEN Raise(NoneZeroModel) /\ prepDark' = prepDark
       ELSE IF IsInt(params.readpatt)
       THEN Raise(IntHasNoUpper) /\ prepDark' = prepDark
       ELSE /\ pc' = "done" /\ err' = err
            /\ prepDark' = [data |-> linDark.data, zeroframe |-> zeroModel.data,
                            sbAndRefpix |-> linDark.sbAndRefpix,
                            zero_sbAndRefpix |-> zeroModel.sbAndRefpix,
                            header |-> linDark.header]
    /\ entry' = dark
    /\ last' = "save"
    /\ UNCHANGED <<params, subarray_bounds, dark, linDark, zeroModel, sbzeroframe, calls>>

\* Lines 779-817: the output file and self.prepDark
save ==
    /\ pc = "cropped"
    /\ IF ~zeroModel.set
       THEN Raise(NoneZeroModel) /\ prepDark' = prepDark /\ written' = written
       ELSE IF IsInt(params.readpatt)
       THEN Raise(IntHasNoUpper) /\ prepDark' = prepDark /\ written' = written
       ELSE /\ pc' = "done" /\ err' = err
            /\ written' = TRUE
            /\ prepDark' = [data |-> linDark.data, zeroframe |-> zeroModel.data,
                            sbAndRefpix |-> linDark.sbAndRefpix,
                            zero_sbAndRefpix |-> zeroModel.sbAndRefpix,
                            header |-> linDark.header]
    /\ entry' = dark
    /\ last' = "save"
    /\ UNCHANGED <<params, subarray_bounds, dark, linDark, zeroModel, sbzeroframe, calls>>

Next ==
    \/ readpattern_check
    \/ check_params
    \/ get_base_dark
    \/ read_linear_dark
    \/ data_volume_check
    \/ darkints
    \/ reorder_dark
    \/ linearize_dark
    \/ crop_pipeline
    \/ crop_linear
    \/ save

Spec == Init /\ [][Next]_vars

(* ============================ properties ============================ *)
\* Frames the request needs, F_req
FramesRequired == params.ngroup * (params.nframe + params.nskip)

\* The last stage has run to its end without an exception
Completed(stage) == last = stage /\ err = NoError

\* C1: in Case A (input pattern RAPID-family, requested pattern not) output
\* group g of integration n is the arithmetic mean of the nframe input
\* frames g*(nframe+nskip) .. g*(nframe+nskip)+nframe-1 of integration n;
\* the nskip frames after each block reach no output group.
RECURSIVE SumOfSamples(_, _, _, _)
SumOfSamples(frames, k, y, x) ==
    IF k = 0 THEN 0 ELSE frames[k][y][x][1] + SumOfSamples(frames, k - 1, y, x)

IsMeanOf(im, frames) ==
    \A y \in 1..Len(im) : \A x \in 1..Len(im[y]) :
        /\ \A k \in 1..Len(frames) : frames[k][y][x][2] = 1
        /\ im[y][x][1] * Len(frames) = SumOfSamples(frames, Len(frames), y, x) * im[y][x][2]

C1_GroupAveraging ==
    (Completed("reorder_dark") /\ entry.header.READPATT \in rapids
                               /\ params.readpatt \notin rapids)
    => /\ Len(dark.data) = params.nint
       /\ \A n \in 1..params.nint :
            /\ Len(dark.data[n]) = params.ngroup
            /\ \A g \in 0..(params.ngroup - 1) :
                 IsMeanOf(dark.data[n][g + 1],
                          SubSeq(entry.data[n],
                                 g * (params.nframe + params.nskip) + 1,
                                 g * (params.nframe + params.nskip) + params.nframe))

C1_Witness ==
    /\ Completed("reorder_dark")
    /\ entry.header.READPATT \in rapids /\ params.readpatt \notin rapids
    /\ params.nframe = 2 /\ params.nskip = 1 /\ params.ngroup = 2 /\ params.nint = 2

\* C2: whenever the requested pattern name equals the input header's name
\* without regard to letter case, reorder_dark averages nothing and returns
\* input[:, :ngroup, :, :] (and likewise for sbAndRefpix).
C2_CaseInsensitiveCaseB ==
    (last = "reorder_dark" /\ Upper(params.readpatt) = Upper(entry.header.READPATT))
    => /\ err = NoError
       /\ \A n \in 1..Len(entry.data) :
            dark.data[n] = SubSeq(entry.data[n], 1, params.ngroup)
       /\ entry.sbAndRefpix # <<>> =>
            \A n \in 1..Len(entry.sbAndRefpix) :
                dark.sbAndRefpix[n] = SubSeq(entry.sbAndRefpix[n], 1, params.ngroup)

\* C3: when the input pattern is not RAPID-family and the requested pattern
\* differs from it, reorder_dark ends in a configuration error and the cube
\* it was given is as it was on entry.
ConfigurationErrors == {CannotConvert, UnknownPattern}

IsCaseC == /\ Upper(entry.header.READPATT) \notin rapids
           /\ Upper(params.readpatt) # Upper(entry.header.READPATT)

C3_CaseCLeavesCube ==
    (last = "reorder_dark" /\ IsCaseC)
    => /\ pc = "failed"
       /\ err \in ConfigurationErrors
       /\ dark = entry

C3_Witness ==
    /\ last = "reorder_dark" /\ IsCaseC
    /\ err = CannotConvert
    /\ entry.zeroframe = <<>> /\ entry.sbAndRefpix # <<>>

\* C4: data_volume_check and darkints / integration_copy never end in an
\* error, whatever the numbers of integrations and frames of the input.
C4_ExtenderNeverFails ==
    last \in {"data_volume_check", "darkints"} => err = NoError

\* C5: when more frames are required than the input has, data_volume_check
\* leaves exactly F_req frames in every integration.
C5_ExactFrameCount ==
    (Completed("data_volume_check") /\ FramesRequired > NFrms(entry.data))
    => \A n \in 1..Len(dark.data) : Len(dark.data[n]) = FramesRequired

\* C6: every frame a full copy appends to integration n is the copied frame
\* of integration n plus the last frame integration n had before the append.
RECURSIVE Pow2(_)
Pow2(t) == IF t = 0 THEN 1 ELSE 2 * Pow2(t - 1)

C6_OffsetOfSameIntegration ==
    (last = "data_volume_check" /\ FramesRequired > NFrms(entry.data))
    => \A t \in 0..MaxDiv :
         LET L == NFrms(entry.data) * Pow2(t)
         IN  2 * L <= NFrms(dark.data)
             => \A n \in 1..Len(dark.data) : \A i \in 1..L :
                    dark.data[n][L + i] = ImAdd(dark.data[n][i], dark.data[n][L])

\* C7: when more integrations are requested than the input has, darkints
\* leaves exactly nint integrations; the first I_in are the input's, and
\* integration I_in + j is input integration j mod I_in, with no offset.
\* The same holds for sbAndRefpix and zeroframe when present.
IsCyclicCopy(out, in, req) ==
    /\ Len(out) = req
    /\ \A j \in 0..(req - 1) : out[j + 1] = in[(j % Len(in)) + 1]

C7_IntegrationExtension ==
    (last = "darkints" /\ params.nint > NInts(entry.data))
    => /\ err = NoError
       /\ IsCyclicCopy(dark.data, entry.data, params.nint)
       /\ (entry.sbAndRefpix = <<>>) = (dark.sbAndRefpix = <<>>)
       /\ entry.sbAndRefpix # <<>>
            => IsCyclicCopy(dark.sbAndRefpix, entry.sbAndRefpix, params.nint)
       /\ (entry.zeroframe = <<>>) = (dark.zeroframe = <<>>)
       /\ entry.zeroframe # <<>>
            => IsCyclicCopy(dark.zeroframe, entry.zeroframe, params.nint)

\* 2 integrations to 5: one full copy and one further integration
C7_Witness ==
    /\ Completed("darkints")
    /\ NInts(entry.data) = 2 /\ params.nint = 5
    /\ entry.sbAndRefpix # <<>> /\ entry.zeroframe # <<>>

\* C8: truncation keeps a prefix.  With fewer frames required than the
\* input has, data_volume_check leaves the first F_req frames of every
\* integration; with fewer integrations requested, darkints leaves the
\* first nint integrations; values are unchanged and sbAndRefpix (and
\* zeroframe, for integrations) is cut to the same prefix.
IsFramePrefix(out, in, req) ==
    /\ Len(out) = Len(in)
    /\ \A n \in 1..Len(in) :
         /\ Len(out[n]) = req
         /\ \A f \in 1..req : out[n][f] = in[n][f]

IsIntPrefix(out, in, req) ==
    /\ Len(out) = req
    /\ \A n \in 1..req : out[n] = in[n]

C8_TruncationIsPrefix ==
    /\ (last = "data_volume_check" /\ FramesRequired < NFrms(entry.data))
       => /\ err = NoError
          /\ IsFramePrefix(dark.data, entry.data, FramesRequired)
          /\ (entry.sbAndRefpix = <<>>) = (dark.sbAndRefpix = <<>>)
          /\ entry.sbAndRefpix # <<>>
               => IsFramePrefix(dark.sbAndRefpix, entry.sbAndRefpix, FramesRequired)
          /\ dark.zeroframe = entry.zeroframe
    /\ (last = "darkints" /\ params.nint < NInts(entry.data))
       => /\ err = NoError
          /\ IsIntPrefix(dark.data, entry.data, params.nint)
          /\ (entry.sbAndRefpix = <<>>) = (dark.sbAndRefpix = <<>>)
          /\ entry.sbAndRefpix # <<>>
               => IsIntPrefix(dark.sbAndRefpix, entry.sbAndRefpix, params.nint)
          /\ (entry.zeroframe = <<>>) = (dark.zeroframe = <<>>)
          /\ entry.zeroframe # <<>>
               => IsIntPrefix(dark.zeroframe, entry.zeroframe, params.nint)

\* 2 integrations of 3 frames cut to 2 frames
C8_Witness ==
    /\ Completed("data_volume_check")
    /\ NFrms(entry.data) = 3 /\ FramesRequired = 2 /\ NInts(entry.data) = 2
    /\ entry.sbAndRefpix # <<>> /\ entry.zeroframe # <<>>

\* C9: after every reshaping stage that completes, and in the prepared
\* dark, header NGROUPS is the length of axis 1 of the data.
NgroupsIsAxis1(obj) == obj.data # <<>> => obj.header.NGROUPS = NFrms(obj.data)

C9_NgroupsIsAxis1 ==
    (err = NoError /\ last \in {"data_volume_check", "darkints", "reorder_dark", "crop_dark", "save"})
    => /\ NgroupsIsAxis1(dark)
       /\ NgroupsIsAxis1(linDark)
       /\ NgroupsIsAxis1(prepDark)

\* C10: whenever sbAndRefpix is present its shape is the shape of data,
\* after every stage, on every model prepare holds.
SameShape3(A, B) ==
    /\ Len(A) = Len(B)
    /\ \A n \in 1..Len(A) :
         /\ Len(A[n]) = Len(B[n])
         /\ \A y \in 1..Len(A[n]) : Len(A[n][y]) = Len(B[n][y])

SameShape4(A, B) ==
    /\ Len(A) = Len(B)
    /\ \A n \in 1..Len(A) : SameShape3(A[n], B[n])

C10_SbMatchesData ==
    /\ dark.sbAndRefpix # <<>> => SameShape4(dark.sbAndRefpix, dark.data)
    /\ linDark.sbAndRefpix # <<>> => SameShape4(linDark.sbAndRefpix, linDark.data)
    /\ prepDark.sbAndRefpix # <<>> => SameShape4(prepDark.sbAndRefpix, prepDark.data)
    /\ zeroModel.sbAndRefpix # <<>> => SameShape3(zeroModel.sbAndRefpix, zeroModel.data)

C10_Witness ==
    /\ Completed("crop_dark")
    /\ subarray_bounds # FullFrame
    /\ dark.sbAndRefpix # <<>> /\ zeroModel.sbAndRefpix # <<>>
    /\ Len(dark.data[1][1][1]) = NX - 1
    /\ params.linearized_darkfile

\* C11: whenever zeroframe is present on a cube its shape is
\* (data.shape[0], data.shape[2], data.shape[3]), after every stage.
ZeroShapeOK(obj) ==
    (obj.zeroframe # <<>> /\ obj.data # <<>>)
    => /\ Len(obj.zeroframe) = Len(obj.data)
       /\ \A n \in 1..Len(obj.data) :
            /\ Len(obj.zeroframe[n]) = Len(obj.data[n][1])
            /\ \A y \in 1..Len(obj.zeroframe[n]) :
                 Len(obj.zeroframe[n][y]) = Len(obj.data[n][1][y])

C11_ZeroframeShape ==
    /\ ZeroShapeOK(dark)
    /\ ZeroShapeOK(linDark)
    /\ ZeroShapeOK(prepDark)

\* 2 integrations cut to 1, then cropped to a subarray, zeroframe present
C11_Witness ==
    /\ Completed("crop_dark")
    /\ subarray_bounds # FullFrame
    /\ dark.zeroframe # <<>>
    /\ Len(dark.zeroframe) = 1 /\ Len(dark.zeroframe[1][1]) = NX - 1
    /\ linDark.zeroframe # <<>>

\* C12: for a RAPID-family input without a zeroframe, after reorder_dark the
\* cube's zeroframe is frame 0 of every integration of the data on entry,
\* and the returned sbzero is sbAndRefpix[:, 0] on entry when present.
C12_ZeroFrameConservation ==
    (Completed("reorder_dark") /\ entry.header.READPATT \in rapids
                               /\ entry.zeroframe = <<>>)
    => /\ dark.zeroframe = [n \in 1..Len(entry.data) |-> entry.data[n][1]]
       /\ entry.sbAndRefpix # <<>>
            => sbzeroframe = [n \in 1..Len(entry.sbAndRefpix) |-> entry.sbAndRefpix[n][1]]
       /\ entry.sbAndRefpix = <<>> => sbzeroframe = <<>>

\* Case A with averaging of two frames, sbAndRefpix present
C12_Witness ==
    /\ Completed("reorder_dark")
    /\ entry.header.READPATT \in rapids /\ entry.zeroframe = <<>>
    /\ params.readpatt \notin rapids /\ params.nframe = 2 /\ params.ngroup = 2
    /\ entry.sbAndRefpix # <<>> /\ Len(entry.data) = 2
    /\ dark.data[1][1] # entry.data[1][1]

\* C13: a non-RAPID input without a zeroframe leaves reorder_dark with
\* zeroframe and sbzero absent, and prepare then reaches its end and sets
\* the prepared dark with an absent zeroframe, in both branches.
C13_MissingZeroFrameRecovers ==
    /\ (Completed("reorder_dark") /\ entry.header.READPATT \notin rapids
                                  /\ entry.zeroframe = <<>>)
       => (dark.zeroframe = <<>> /\ sbzeroframe = <<>>)
    /\ (last = "save" /\ dark.zeroframe = <<>>)
       => /\ pc = "done" /\ err = NoError
          /\ prepDark.data # <<>>
          /\ prepDark.zeroframe = <<>>

\* C14: crop_dark ends in a configuration error exactly when the amplifier
\* count is not 1 or 4, or it is 4 and x_max - x_min + 1 is not a multiple
\* of 4; otherwise it succeeds and the model holds the cropped arrays.
FastAxisWidth == subarray_bounds[3] - subarray_bounds[1] + 1

BadAmplifiers ==
    \/ params.namp \notin {1, 4}
    \/ params.namp = 4 /\ FastAxisWidth % 4 # 0

IsCropOf(out, in) ==
    /\ Len(out) = Len(in)
    /\ \A n \in 1..Len(in) :
         /\ Len(out[n]) = Len(in[n])
         /\ \A f \in 1..Len(in[n]) :
              /\ Len(out[n][f]) = subarray_bounds[4] - subarray_bounds[2] + 1
              /\ \A y \in 1..Len(out[n][f]) :
                   /\ Len(out[n][f][y]) = FastAxisWidth
                   /\ \A x \in 1..FastAxisWidth :
                        out[n][f][y][x] =
                            in[n][f][y + subarray_bounds[2]][x + subarray_bounds[1]]

C14_CropErrors ==
    last = "crop_dark"
    => /\ BadAmplifiers <=> pc = "failed"
       /\ BadAmplifiers <=> err \in {AmplifierMode, AmplifierWidth}
       /\ ~BadAmplifiers => (err = NoError /\ IsCropOf(dark.data, entry.data))

\* 4 amplifiers and a subarray whose width is not a multiple of 4
C14_Witness ==
    /\ last = "crop_dark"
    /\ params.namp = 4 /\ FastAxisWidth % 4 # 0
    /\ err = AmplifierWidth

\* C15: when the subarray bounds are (0, 0, xd-1, yd-1) for the model's
\* image size, crop_dark returns data, sbAndRefpix and zeroframe as they
\* were on entry, for data of 4, 3 and 2 axes.
Image2D(im) == [data |-> im, sbAndRefpix |-> im, zeroframe |-> im]

CropIdentityStep ==
    (last' = "crop_dark" /\ IsFullFrame(dark.data[1][1], subarray_bounds))
    => /\ dark'.data = dark.data
       /\ dark'.sbAndRefpix = dark.sbAndRefpix
       /\ dark'.zeroframe = dark.zeroframe
       /\ linDark'.data = linDark.data
       /\ linDark'.sbAndRefpix = linDark.sbAndRefpix
       /\ linDark'.zeroframe = linDark.zeroframe
       /\ zeroModel.set => zeroModel' = zeroModel
       /\ (params.linearized_darkfile /\ err' = NoError)
            => /\ zeroModel'.data = dark.zeroframe
               /\ zeroModel'.sbAndRefpix = sbzeroframe
       /\ \A n \in 1..Len(dark.data) : \A f \in 1..Len(dark.data[n]) :
            CropDark2(Image2D(dark.data[n][f]), params, subarray_bounds).obj
                = Image2D(dark.data[n][f])

C15_CropIdentity == [][CropIdentityStep]_vars

\* a full-frame crop of a cube with sbAndRefpix and a zero frame model
C15_Witness ==
    /\ Completed("crop_dark")
    /\ subarray_bounds = FullFrame
    /\ dark.sbAndRefpix # <<>> /\ dark.zeroframe # <<>>
    /\ zeroModel.set /\ zeroModel.data # <<>>
    /\ Len(dark.data) = 2 /\ Len(dark.data[1]) = 2

\* C16: once a stage of prepare has raised, there is no output: the file
\* is not written and self.prepDark is not set; both exist only when
\* prepare has run to its end.
C16_NoBundleOnFailure ==
    /\ pc = "failed" => (err # NoError /\ ~written /\ prepDark = NoPrep)
    /\ (written \/ prepDark # NoPrep) => (pc = "done" /\ err = NoError)

\* prepare raising AttributeError at its last stage, after every cube
\* has been reshaped
C16_Witness ==
    /\ pc = "failed" /\ last = "save"
    /\ dark.data # <<>> /\ linDark.data # <<>>

\* C17: after a reorder_dark that completes in the order of prepare, data
\* has shape (nint, ngroup, y, x) and the header fields READPATT, NFRAMES,
\* NSKIP, NGROUPS, NINTS hold the requested values.
C17_TranslatedShapeAndHeader ==
    Completed("reorder_dark")
    => /\ Len(dark.data) = params.nint
       /\ \A n \in 1..Len(dark.data) :
            /\ Len(dark.data[n]) = params.ngroup
            /\ \A g \in 1..Len(dark.data[n]) :
                 /\ Len(dark.data[n][g]) = Len(entry.data[1][1])
                 /\ \A y \in 1..Len(dark.data[n][g]) :
                      Len(dark.data[n][g][y]) = Len(entry.data[1][1][y])
       /\ dark.header = [READPATT |-> params.readpatt, NFRAMES |-> params.nframe,
                         NSKIP |-> params.nskip, NGROUPS |-> params.ngroup,
                         NINTS |-> params.nint]

\* Case B with more frames on entry than groups asked for
C17_Witness ==
    /\ Completed("reorder_dark")
    /\ entry.header.READPATT = params.readpatt
    /\ params.ngroup = 2 /\ Len(entry.data[1]) = 4 /\ params.nint = 3

\* C18: Case A with nframe = 1 and nskip = 0 gives the values of
\* input[:, :ngroup, :, :], for data and for sbAndRefpix.
C18_AveragingIdempotence ==
    (Completed("reorder_dark") /\ IsCaseA(entry.header.READPATT, params)
                               /\ params.nframe = 1 /\ params.nskip = 0)
    => /\ \A n \in 1..params.nint :
            dark.data[n] = SubSeq(entry.data[n], 1, params.ngroup)
       /\ entry.sbAndRefpix # <<>>
            => \A n \in 1..params.nint :
                 dark.sbAndRefpix[n] = SubSeq(entry.sbAndRefpix[n], 1, params.ngroup)

C18_Witness ==
    /\ Completed("reorder_dark")
    /\ IsCaseA(entry.header.READPATT, params)
    /\ params.nframe = 1 /\ params.nskip = 0
    /\ params.ngroup = 2 /\ params.nint = 2
    /\ entry.sbAndRefpix # <<>>

\* C19: in every run of prepare the stages come in the order
\* data_volume_check, darkints, reorder_dark, linearize_dark (raw input
\* only), crop_dark, save; a stage starts only when the one before it has
\* completed, and crop_dark never comes before linearize_dark.
StagesAfter(stage) ==
    CASE stage = "init" -> {"readpattern_check"}
      [] stage = "readpattern_check" -> {"check_params"}
      [] stage = "check_params" -> {"get_base_dark", "read_linear_dark"}
      [] stage \in {"get_base_dark", "read_linear_dark"} -> {"data_volume_check"}
      [] stage = "data_volume_check" -> {"darkints"}
      [] stage = "darkints" -> {"reorder_dark"}
      [] stage = "reorder_dark" -> IF params.linearized_darkfile
                                   THEN {"crop_dark"} ELSE {"linearize_dark"}
      [] stage = "linearize_dark" -> {"crop_dark"}
      [] stage = "crop_dark" -> {"save"}
      [] OTHER -> {}

StageOrderStep ==
    /\ last' \in StagesAfter(last)
    /\ err = NoError /\ pc # "failed"
    /\ (last' = "crop_dark" /\ ~params.linearized_darkfile)
         => (last = "linearize_dark" /\ linDark.data # <<>>)

C19_StageOrder == [][StageOrderStep]_vars

\* a whole run on a raw dark: every stage has run
C19_Witness ==
    /\ pc = "done" /\ last = "save"
    /\ ~params.linearized_darkfile
    /\ prepDark.data # <<>>

\* C20: every run of linearize_dark calls the steps in the order bad pixel
\* flagging, saturation flagging, bias subtraction, reference pixel
\* correction, non-linearity correction, whichever reference files are
\* supplied; sbAndRefpix is the data given minus the data after the
\* reference pixel correction, taken before the non-linearity correction.
StepOrder == <<"dq_init", "saturation", "superbias", "refpix", "linearity">>

ExpectedAfterRefPix(v) ==
    RefPixStep(SuperBiasStep(SaturationStep(DQInitStep(v)),
                             "superbias" \in params.runStep))

C20_LinearizationOrder ==
    last = "linearize_dark"
    => /\ Len(calls) \in {5, 10}
       /\ \A k \in 1..Len(calls) : calls[k].step = StepOrder[((k - 1) % 5) + 1]
       /\ Len(linDark.data) = Len(entry.data)
       /\ \A n \in 1..Len(entry.data) :
            /\ Len(linDark.data[n]) = Len(entry.data[n])
            /\ \A f \in 1..Len(entry.data[n]) :
                 \A y \in 1..Len(entry.data[n][f]) :
                    \A x \in 1..Len(entry.data[n][f][y]) :
                       LET v == entry.data[n][f][y][x]
                       IN  /\ linDark.sbAndRefpix[n][f][y][x]
                                = RSub(v, ExpectedAfterRefPix(v))
                           /\ linDark.data[n][f][y][x]
                                = LinearityStep(ExpectedAfterRefPix(v),
                                                "linearity" \in params.runStep)

\* the cube and then the zero frame linearized, the superbias file supplied
C20_Witness ==
    /\ last = "linearize_dark"
    /\ params.runStep = {"superbias"}
    /\ Len(calls) = 10
    /\ zeroModel.set

\* C21: when F_req = k*F + m with 0 < m < F, the last m frames that
\* data_volume_check appends to integration n are original[n, 1:m+1] minus
\* original[n, 0] plus the last frame integration n had before the append;
\* the same for sbAndRefpix.
IsPartialBlock(out, in, m) ==
    \A n \in 1..Len(out) :
        LET L == Len(out[n]) - m
        IN  /\ L >= Len(in[n])
            /\ \A j \in 1..m :
                 out[n][L + j] = ImAdd(ImSub(in[n][j + 1], in[n][1]), out[n][L])

C21_PartialBlock ==
    (Completed("data_volume_check") /\ FramesRequired > NFrms(entry.data)
                                    /\ FramesRequired % NFrms(entry.data) > 0)
    => /\ IsPartialBlock(dark.data, entry.data, FramesRequired % NFrms(entry.data))
       /\ entry.sbAndRefpix # <<>>
            => IsPartialBlock(dark.sbAndRefpix, entry.sbAndRefpix,
                              FramesRequired % NFrms(entry.data))

\* C22: if every sample of the input is non-negative and non-decreasing
\* along the frame axis, then after data_volume_check every sample is
\* still non-decreasing along the whole frame axis.
RLe(a, b) == a[1] * b[2] <= b[1] * a[2]

NonNegative(A) ==
    \A n \in 1..Len(A) : \A f \in 1..Len(A[n]) :
        \A y \in 1..Len(A[n][f]) : \A x \in 1..Len(A[n][f][y]) :
            RLe(<<0, 1>>, A[n][f][y][x])

NonDecreasing(A) ==
    \A n \in 1..Len(A) : \A f \in 1..(Len(A[n]) - 1) :
        \A y \in 1..Len(A[n][f]) : \A x \in 1..Len(A[n][f][y]) :
            RLe(A[n][f][y][x], A[n][f + 1][y][x])

C22_ExtensionMonotone ==
    (Completed("data_volume_check") /\ NonNegative(entry.data)
                                    /\ NonDecreasing(entry.data))
    => NonDecreasing(dark.data)

\* C23: after darkints header NINTS is the requested nint, whether the
\* integrations were extended, truncated or already matched.
C23_NintsAfterDarkints ==
    Completed("darkints") => dark.header.NINTS = params.nint

\* C24: when the cube given to reorder_dark has a zeroframe, reorder_dark
\* leaves it as it was; the sbzero it returns is sbAndRefpix[:, 0] when the
\* input pattern is RAPID-family and sbAndRefpix is present, and None when
\* the input pattern is not RAPID-family.
C24_PresentZeroFrameKept ==
    (Completed("reorder_dark") /\ entry.zeroframe # <<>>)
    => /\ dark.zeroframe = entry.zeroframe
       /\ (entry.header.READPATT \in rapids /\ entry.sbAndRefpix # <<>>)
            => sbzeroframe = [n \in 1..Len(entry.sbAndRefpix) |-> entry.sbAndRefpix[n][1]]
       /\ entry.header.READPATT \notin rapids => sbzeroframe = <<>>

\* a RAPID cube with zeroframe and sbAndRefpix, averaged in pairs
C24_Witness ==
    /\ Completed("reorder_dark")
    /\ entry.zeroframe # <<>> /\ entry.sbAndRefpix # <<>>
    /\ entry.header.READPATT \in rapids
    /\ params.nframe = 2 /\ Len(entry.data) = 2
    /\ sbzeroframe # <<>>
    /\ dark.zeroframe # [n \in 1..Len(entry.data) |-> entry.data[n][1]]

\* C25: the amplifier constraints of the request are validated before any
\* transformation: when they are violated, none of data_volume_check,
\* darkints, reorder_dark, linearize_dark and the slicing of crop_dark has
\* run on a cube, and the cube is as it was read.
TransformingStages ==
    {"data_volume_check", "darkints", "reorder_dark", "linearize_dark", "crop_dark"}

C25_AmplifiersValidatedFirst ==
    BadAmplifiers
    => /\ last \notin TransformingStages
       /\ err \in {AmplifierMode, AmplifierWidth} => dark = entry

\* C26: when the requested ngroup exceeds maxgroups of the requested
\* pattern, check_params sets ngroup to maxgroups and leaves the pattern
\* name as the caller gave it; afterwards ngroup <= maxgroups.
GroupsClampedStep ==
    (last' = "check_params" /\ pc' = "checked")
    => /\ params'.readpatt = params.readpatt
       /\ params'.ngroup <= params.maxgroups
       /\ params.ngroup > params.maxgroups => params'.ngroup = params.maxgroups
       /\ params.ngroup <= params.maxgroups => params' = params

C26_GroupsClamped == [][GroupsClampedStep]_vars

\* C27: linearize_dark is called, on the cube reorder_dark returned,
\* exactly when the input is raw and the pipeline is in use.  On a
\* linearized input it is never called, the cube reorder_dark returned is
\* cropped, and the zero-frame sbAndRefpix of the prepared dark is the
\* sbzero reorder_dark returned (cut to the subarray like every array).
\* A raw input without the pipeline ends in an error, with no output.
RawInput == ~params.linearized_darkfile

IsTranslated(obj) ==
    /\ obj.header.READPATT = params.readpatt
    /\ obj.header.NGROUPS = params.ngroup
    /\ NFrms(obj.data) = params.ngroup

C28_RapidInputTranslates ==
    /\ (last = "reorder_dark" /\ entry.header.READPATT \in rapids
                              /\ params.readpatt \in TableNames)
       => err # CannotConvert
    /\ (last = "reorder_dark" /\ err = CannotConvert)
       => /\ entry.header.READPATT \notin rapids
          /\ entry.header.READPATT # params.readpatt

\* C29: on a raw input with a requested pattern that is not RAPID-family
\* and a zero frame present, linearizing the zero frame as a cube of one
\* group leaves the header of the linearized cube as it was: in the
\* prepared dark NGROUPS is the requested ngroup, the number of groups of
\* its data.
ZeroFrameLinearized ==
    /\ RawInput /\ params.use_JWST_pipeline
    /\ params.readpatt \notin rapids
    /\ dark.zeroframe # <<>>

C29_BundleNgroups ==
    /\ (Completed("linearize_dark") /\ ZeroFrameLinearized)
       => linDark.header = entry.header
    /\ (pc = "done" /\ ZeroFrameLinearized)
       => /\ prepDark.header.NGROUPS = params.ngroup
          /\ prepDark.header.NGROUPS = NFrms(prepDark.data)

\* C30: in the order data_volume_check, darkints, reorder_dark every read
\* of the Case A averaging loops is in range: each frame index
\* i*(nframe+nskip) + k, k < nframe, i < ngroup, is below the length of the
\* frame axis and each integration index below nint exists.
C30_CaseAReadsInRange ==
    /\ err # IndexOutOfBounds
    /\ (last = "reorder_dark" /\ IsCaseA(entry.header.READPATT, params))
       => /\ params.nint <= Len(entry.data)
          /\ \A n \in 1..params.nint : \A i \in 0..(params.ngroup - 1) :
               \A k \in 0..(params.nframe - 1) :
                  i * (params.nframe + params.nskip) + k < Len(entry.data[n])
          /\ entry.sbAndRefpix # <<>>
               => /\ params.nint <= Len(entry.sbAndRefpix)
                  /\ \A n \in 1..params.nint :
                       (params.ngroup - 1) * (params.nframe + params.nskip)
                           + params.nframe - 1 < Len(entry.sbAndRefpix[n])

\* 6 frames and 5 integrations asked of an input with at most 3 and 2
C30_Witness ==
    /\ Completed("reorder_dark")
    /\ IsCaseA(entry.header.READPATT, params)
    /\ params.ngroup = 2 /\ params.nframe = 2 /\ params.nskip = 1
    /\ params.nint = 5
    /\ entry.sbAndRefpix # <<>>

====
